---- MODULE Spec2Model ----
(***************************************************************************)
(* Model of the property search engine of the listings backend             *)
(* (properties/views.py, PropertyViewSet.get_queryset) together with the   *)
(* SiteSettings singleton it reads and the requests that change the stored *)
(* data it searches.                                                       *)
(*                                                                         *)
(* Representation.  A text value is a sequence of one-character strings,   *)
(* so that splitting, trimming, case folding, substring search and number  *)
(* and date parsing are computed, not assumed.  A decimal is an integer    *)
(* count of tenths (DecScale): 31.5 is 315.  A query-parameter mapping is  *)
(* a function from the supplied keys to text values.                       *)
(*                                                                         *)
(* Six specifications share the module.  Spec is the search engine and     *)
(* the requests that change what it searches.  SpecSettings is the         *)
(* SiteSettings singleton under concurrent accesses, get_settings taken    *)
(* statement by statement.  SpecWrites is the write side of the property   *)
(* endpoint: authentication, permissions and PropertySerializer, and       *)
(* SpecLocations is the same handlers under the requests of an             *)
(* authenticated caller that name either state.  SpecBox is the radius     *)
(* bounding box as a function of center, radius and point.  SpecBanners    *)
(* is the create of the two banner endpoints under concurrent requests.    *)
(* Each specification leaves the variables of the others at their initial  *)
(* values.                                                                 *)
(***************************************************************************)
EXTENDS Integers, Sequences, FiniteSets, TLC

VARIABLES
    properties,     \* ids of the stored Property rows (fields: PropertyRow)
    siteSettings,   \* the SiteSettings table: a set of rows [pk, filter_radius]
    request,        \* the list request being served: Idle or [params |-> mapping]
    response,       \* Pending, or [status, results, consulted] of the request
    accessors,      \* SpecSettings: each concurrent request's operation and position
    states,         \* SpecWrites: the State table, rows [id, name]
    districts,      \* SpecWrites: the District table, rows [id, name, state]
    cities,         \* SpecWrites: the City table, rows [id, name, district]
    located,        \* SpecWrites: each stored property's [state, district, city]
    images,         \* SpecWrites: the PropertyImage table, rows [id, property]
    written,        \* SpecWrites: the user and the response status of the last write request
    probe,          \* SpecBox: a center, a radius, a point and the filter's verdict
    banners,        \* SpecBanners: the ids of the HeroBanner and of the OfferBanner rows
    serial,         \* SpecBanners: the last id each banner table gave out
    creating,       \* SpecBanners: each concurrent create request's position
    completed       \* SpecBanners: the banner of the last create that saved one, 0 for none

vars ==
    <<properties, siteSettings, request, response, accessors, states,
      districts, cities, located, images, written, probe, banners, serial,
      creating, completed>>

\* the variables the search specification leaves alone
outsideSearch ==
    <<accessors, states, districts, cities, located, images, written, probe,
      banners, serial, creating, completed>>

-----------------------------------------------------------------------------
(* Text *)

\* Python's None for a text value: QueryDict.get of a key that is not supplied
None == <<"<None>">>

Digits == <<"0", "1", "2", "3", "4", "5", "6", "7", "8", "9">>

IsDigit(c) == \E i \in 1..10 : Digits[i] = c

DigitVal(c) == (CHOOSE i \in 1..10 : Digits[i] = c) - 1

Upper == <<"A", "B", "C", "D", "E", "F", "G", "H", "I", "J", "K", "L", "M",
           "N", "O", "P", "Q", "R", "S", "T", "U", "V", "W", "X", "Y", "Z">>

LowerLetters == <<"a", "b", "c", "d", "e", "f", "g", "h", "i", "j", "k", "l", "m",
                  "n", "o", "p", "q", "r", "s", "t", "u", "v", "w", "x", "y", "z">>

\* str.lower() on one character
LowerChar(c) ==
    IF \E i \in 1..26 : Upper[i] = c
    THEN LowerLetters[CHOOSE i \in 1..26 : Upper[i] = c]
    ELSE c

\* str.lower()
Lower(s) == [i \in 1..Len(s) |-> LowerChar(s[i])]

IsSpace(c) == c \in {" ", "\t", "\n"}

\* str.strip()
RECURSIVE LStrip(_)
LStrip(s) == IF s # <<>> /\ IsSpace(Head(s)) THEN LStrip(Tail(s)) ELSE s

RECURSIVE RStrip(_)
RStrip(s) ==
    IF s # <<>> /\ IsSpace(s[Len(s)]) THEN RStrip(SubSeq(s, 1, Len(s) - 1)) ELSE s

Strip(s) == RStrip(LStrip(s))

\* the first whitespace-delimited word of a text that starts with a non-space
RECURSIVE FirstWord(_)
FirstWord(s) ==
    IF s = <<>> \/ IsSpace(Head(s)) THEN <<>> ELSE <<Head(s)>> \o FirstWord(Tail(s))

\* str.split() with no separator: the maximal runs of non-whitespace, in order
RECURSIVE Split(_)
Split(s) ==
    LET t == LStrip(s) IN
    IF t = <<>> THEN <<>>
    ELSE LET w == FirstWord(t) IN
         <<w>> \o Split(SubSeq(t, Len(w) + 1, Len(t)))

\* the SQL substring test behind __icontains (case-folded on both sides); a
\* NULL column (None) matches nothing
IContains(field, term) ==
    /\ field # None
    /\ \E i \in 1..(Len(field) - Len(term) + 1) :
           Lower(SubSeq(field, i, i + Len(term) - 1)) = Lower(term)

\* the SQL test behind __iexact
IExact(field, value) == field # None /\ Lower(field) = Lower(value)

\* Python truthiness of an optional text: None and '' are false
Truthy(v) == v # None /\ v # <<>>

-----------------------------------------------------------------------------
(* Numbers *)

\* tenths per unit in the representation of a decimal
DecScale == 10

RECURSIVE DigitsValue(_)
DigitsValue(s) ==
    IF s = <<>> THEN 0 ELSE 10 * DigitsValue(SubSeq(s, 1, Len(s) - 1)) + DigitVal(s[Len(s)])

AllDigits(s) == \A i \in 1..Len(s) : IsDigit(s[i])

HasSign(s) == s # <<>> /\ Head(s) \in {"+", "-"}

Unsigned(s) == IF HasSign(s) THEN Tail(s) ELSE s

SignOf(s) == IF s # <<>> /\ Head(s) = "-" THEN -1 ELSE 1

NoInt == [ok |-> FALSE, v |-> 0]

\* convert_int: int(value), None on TypeError (value is None) or ValueError
\* (anything but optional blanks, an optional sign and decimal digits)
convert_int(value) ==
    IF value = None THEN NoInt
    ELSE LET t == Strip(value)
             u == Unsigned(t)
         IN IF u # <<>> /\ AllDigits(u)
            THEN [ok |-> TRUE, v |-> SignOf(t) * DigitsValue(u)]
            ELSE NoInt

NoDecimal == [ok |-> FALSE, kind |-> "none", v |-> 0]

PointAt(s) == IF \E i \in 1..Len(s) : s[i] = "." THEN CHOOSE i \in 1..Len(s) : s[i] = "." ELSE 0

\* the value in tenths of an unsigned numeral with at most one fraction digit
TenthsOf(u) ==
    LET p == PointAt(u) IN
    IF p = 0 THEN DecScale * DigitsValue(u)
    ELSE LET ip == SubSeq(u, 1, p - 1)
             fp == SubSeq(u, p + 1, Len(u))
         IN DecScale * DigitsValue(ip) + (IF fp = <<>> THEN 0 ELSE DigitVal(fp[1]))

\* the numerals Decimal() accepts, as far as the model's numerals go: digits with
\* at most one point and at least one digit
IsNumeral(u) ==
    LET p == PointAt(u) IN
    IF p = 0 THEN u # <<>> /\ AllDigits(u)
    ELSE LET ip == SubSeq(u, 1, p - 1)
             fp == SubSeq(u, p + 1, Len(u))
         IN AllDigits(ip) /\ AllDigits(fp) /\ Len(ip) + Len(fp) > 0 /\ Len(fp) <= 1

\* convert_decimal: Decimal(value), None on TypeError (value is None) or
\* InvalidOperation.  Decimal() accepts the special values too: 'Infinity',
\* 'Inf' and 'NaN' in any case, with an optional sign, are decimals
convert_decimal(value) ==
    IF value = None THEN NoDecimal
    ELSE LET t == Strip(value)
             u == Unsigned(t)
             l == Lower(u)
         IN IF l \in {<<"i","n","f","i","n","i","t","y">>, <<"i","n","f">>}
            THEN [ok |-> TRUE, kind |-> "inf", v |-> SignOf(t)]
            ELSE IF l = <<"n","a","n">>
            THEN [ok |-> TRUE, kind |-> "nan", v |-> 0]
            ELSE IF IsNumeral(u)
            THEN [ok |-> TRUE, kind |-> "finite", v |-> SignOf(t) * TenthsOf(u)]
            ELSE NoDecimal

-----------------------------------------------------------------------------
(* Dates *)

\* lexicographic a <= b on integer tuples of one length
RECURSIVE LexLeq(_, _)
LexLeq(a, b) ==
    IF a = <<>> THEN TRUE
    ELSE IF Head(a) # Head(b) THEN Head(a) < Head(b)
    ELSE LexLeq(Tail(a), Tail(b))

IsLeap(y) == (y % 4 = 0 /\ y % 100 # 0) \/ y % 400 = 0

DaysInMonth(y, m) ==
    IF m = 2 THEN (IF IsLeap(y) THEN 29 ELSE 28)
    ELSE IF m \in {4, 6, 9, 11} THEN 30 ELSE 31

\* the positions of the two hyphens of a text shaped digits-digits-digits
Hyphens(s) == {i \in 1..Len(s) : s[i] = "-"}

\* date_re of django.utils.dateparse: 4 digits, '-', 1 or 2 digits, '-', 1 or 2 digits
WellFormedDate(s) ==
    /\ Cardinality(Hyphens(s)) = 2
    /\ LET h1 == CHOOSE i \in Hyphens(s) : \A j \in Hyphens(s) : i <= j
           h2 == CHOOSE i \in Hyphens(s) : \A j \in Hyphens(s) : j <= i
       IN /\ h1 = 5
          /\ AllDigits(SubSeq(s, 1, 4))
          /\ h2 - h1 - 1 \in {1, 2}
          /\ AllDigits(SubSeq(s, h1 + 1, h2 - 1))
          /\ Len(s) - h2 \in {1, 2}
          /\ AllDigits(SubSeq(s, h2 + 1, Len(s)))

DateFields(s) ==
    LET h2 == CHOOSE i \in Hyphens(s) : \A j \in Hyphens(s) : j <= i IN
    <<DigitsValue(SubSeq(s, 1, 4)),
      DigitsValue(SubSeq(s, 6, h2 - 1)),
      DigitsValue(SubSeq(s, h2 + 1, Len(s)))>>

\* datetime.date(year, month, day) accepts exactly the days of the calendar
IsCalendarDate(f) ==
    /\ f[1] >= 1
    /\ f[2] \in 1..12
    /\ f[3] >= 1
    /\ f[3] <= DaysInMonth(f[1], f[2])

\* parse_date: a date for a well-formed calendar date, None for a text that is
\* not well formed, and ValueError for a well-formed text that names no day of
\* the calendar (the date constructor raises and parse_date lets it through)
parse_date(value) ==
    IF ~WellFormedDate(value) THEN [kind |-> "none", date |-> <<0, 0, 0>>]
    ELSE IF IsCalendarDate(DateFields(value))
    THEN [kind |-> "date", date |-> DateFields(value)]
    ELSE [kind |-> "ValueError", date |-> <<0, 0, 0>>]

\* datetime.time.min and datetime.time.max as <<hour, minute, second, microsecond>>
time_min == <<0, 0, 0, 0>>

time_max == <<23, 59, 59, 999999>>

\* datetime.combine(date, time), made aware in the zone created_at is read in
Combine(date, time) == date \o time

-----------------------------------------------------------------------------
(* Stored data *)

T_rent == <<"r", "e", "n", "t">>
T_sell == <<"s", "e", "l", "l">>
T_management == <<"m", "a", "n", "a", "g", "e", "m", "e", "n", "t">>
T_direct_owner == <<"d", "i", "r", "e", "c", "t", "_", "o", "w", "n", "e", "r">>
T_sqft == <<"s", "q", "f", "t">>
T_sqm == <<"s", "q", "m">>
T_Furnished == <<"F", "u", "r", "n", "i", "s", "h", "e", "d">>
T_Bare == <<"B", "a", "r", "e">>
T_Villa == <<"V", "i", "l", "l", "a">>
T_Flat == <<"F", "l", "a", "t">>
T_Punjab == <<"P", "u", "n", "j", "a", "b">>
T_Sindh == <<"S", "i", "n", "d", "h">>
T_Lahore == <<"L", "a", "h", "o", "r", "e">>
T_Karachi == <<"K", "a", "r", "a", "c", "h", "i">>
T_Pool == <<"P", "o", "o", "l">>
T_Garden == <<"G", "a", "r", "d", "e", "n">>
T_GardenFlat == <<"G", "a", "r", "d", "e", "n", " ", "f", "l", "a", "t">>
T_RoseGarden == <<"R", "o", "s", "e", " ", "G", "a", "r", "d", "e", "n">>
T_Ali == <<"A", "l", "i">>
T_25Lakh == <<"2", "5", " ", "L", "a", "k", "h">>
T_Negotiable == <<"N", "e", "g", "o", "t", "i", "a", "b", "l", "e">>

\* Property.PROPERTY_FOR_CHOICES and Property.OWNERSHIP_CHOICES (the codes)
PROPERTY_FOR_CHOICES == {T_rent, T_sell}

OWNERSHIP_CHOICES == {T_management, T_direct_owner}

\* Property.AREA_UNIT_CHOICES (the codes)
AREA_UNIT_CHOICES == {T_sqft, T_sqm}

\* a NULL latitude or longitude column
Null == [null |-> TRUE, v |-> 0]

Coord(tenths) == [null |-> FALSE, v |-> tenths]

Feature_Pool == [id |-> 1, name |-> T_Pool]

Feature_Garden == [id |-> 2, name |-> T_Garden]

Feature_RoseGarden == [id |-> 3, name |-> T_RoseGarden]

State_Punjab == [id |-> 1, name |-> T_Punjab]

State_Sindh == [id |-> 2, name |-> T_Sindh]

District_Lahore == [id |-> 1, name |-> T_Lahore, state |-> 1]

District_Karachi == [id |-> 2, name |-> T_Karachi, state |-> 2]

City_Lahore == [id |-> 1, name |-> T_Lahore, district |-> 1]

City_Karachi == [id |-> 2, name |-> T_Karachi, district |-> 2]

Type_Villa == [id |-> 1, name |-> T_Villa]

Type_Flat == [id |-> 2, name |-> T_Flat]

\* the ids a Property row can have
PropertyIds == 1..4

\* The Property rows the model stores, by id, with the related rows a query
\* reaches joined in.  created_at is <<year, month, day, hour, minute, second,
\* microsecond>>; it is set on insert (auto_now_add), so it does not decrease
\* with the id.  Rows 2 and 3 were inserted in the same microsecond.  Row 2 has no
\* coordinates, row 4 a latitude and no longitude (the columns are nullable
\* one by one).  Row 1 is linked to two features, row 4 to two features with
\* a word in common.
PropertyRow(id) ==
    CASE id = 1 ->
            [id |-> 1, property_for |-> T_rent, property_ownership |-> T_management,
             contact_name |-> T_Ali, state |-> State_Punjab, district |-> District_Lahore,
             city |-> City_Lahore, title |-> T_Villa, price |-> T_25Lakh,
             property_type |-> Type_Villa, latitude |-> Coord(315), longitude |-> Coord(743),
             bedrooms |-> 3, bathrooms |-> 2, area |-> 1200, area_unit |-> T_sqft,
             description |-> <<>>, features |-> {Feature_Pool, Feature_Garden},
             nearby_places |-> None, furnishing |-> T_Furnished,
             created_at |-> <<2024, 1, 1, 10, 0, 0, 0>>]
      [] id = 2 ->
            [id |-> 2, property_for |-> T_sell, property_ownership |-> T_direct_owner,
             contact_name |-> T_Ali, state |-> State_Sindh, district |-> District_Karachi,
             city |-> City_Karachi, title |-> T_Flat, price |-> T_Negotiable,
             property_type |-> Type_Flat, latitude |-> Null, longitude |-> Null,
             bedrooms |-> 2, bathrooms |-> 1, area |-> 900, area_unit |-> T_sqft,
             description |-> <<>>, features |-> {},
             nearby_places |-> None, furnishing |-> T_Bare,
             created_at |-> <<2024, 1, 2, 9, 0, 0, 0>>]
      [] id = 3 ->
            [id |-> 3, property_for |-> T_rent, property_ownership |-> T_management,
             contact_name |-> T_Ali, state |-> State_Punjab, district |-> District_Lahore,
             city |-> City_Lahore, title |-> T_GardenFlat, price |-> T_25Lakh,
             property_type |-> Type_Flat, latitude |-> Coord(320), longitude |-> Coord(743),
             bedrooms |-> 3, bathrooms |-> 2, area |-> 100, area_unit |-> T_sqm,
             description |-> <<>>, features |-> {Feature_Pool},
             nearby_places |-> None, furnishing |-> T_Furnished,
             created_at |-> <<2024, 1, 2, 9, 0, 0, 0>>]
      [] id = 4 ->
            [id |-> 4, property_for |-> T_sell, property_ownership |-> T_management,
             contact_name |-> T_Ali, state |-> State_Sindh, district |-> District_Karachi,
             city |-> City_Karachi, title |-> T_Villa, price |-> T_Negotiable,
             property_type |-> Type_Villa, latitude |-> Coord(315), longitude |-> Null,
             bedrooms |-> 4, bathrooms |-> 3, area |-> 1000, area_unit |-> T_sqft,
             description |-> <<>>, features |-> {Feature_Garden, Feature_RoseGarden},
             nearby_places |-> None, furnishing |-> T_Bare,
             created_at |-> <<2024, 1, 3, 23, 59, 59, 999999>>]

-----------------------------------------------------------------------------
(* SiteSettings *)

\* the filter_radius, in tenths of a kilometre, of the row get_settings creates
DefaultFilterRadius == 100

\* SiteSettings.get_settings(): the singleton row (pk = 1), created with the
\* default radius when the table has no row yet.  Yields the table afterwards.
get_settings(table) ==
    IF \E r \in table : r.pk = 1 THEN table
    ELSE table \cup {[pk |-> 1, filter_radius |-> DefaultFilterRadius]}

\* the row get_settings returns
SettingsRow(table) == CHOOSE r \in get_settings(table) : r.pk = 1

-----------------------------------------------------------------------------
(* PropertyViewSet.get_queryset *)

\* params.get(key): the value supplied for the key, None when it is not supplied
\* (a mapping is a set of <<key, value>> pairs with one pair per key)
Supplied(params, key) == \E kv \in params : kv[1] = key

Get(params, key) ==
    IF Supplied(params, key) THEN (CHOOSE kv \in params : kv[1] = key)[2] ELSE None

\* params.get('area_unit', 'sqft').lower()
area_unit_of(params) ==
    Lower(IF Supplied(params, "area_unit") THEN Get(params, "area_unit") ELSE T_sqft)

\* property_for: equality when the value is one of the codes
F_property_for(params, p) ==
    LET v == Get(params, "property_for") IN
    v \in PROPERTY_FOR_CHOICES => p.property_for = v

F_ownership(params, p) ==
    LET v == Get(params, "ownership") IN
    v \in OWNERSHIP_CHOICES => p.property_ownership = v

F_furnishing(params, p) ==
    LET v == Get(params, "furnishing") IN
    Truthy(v) => IExact(p.furnishing, v)

\* the area group with only the unit equality under the test of the unit
F_area_bounds_unguarded(params, p) ==
    LET unit == area_unit_of(params)
        lo == convert_int(Get(params, "area_min"))
        hi == convert_int(Get(params, "area_max"))
    IN /\ unit \in AREA_UNIT_CHOICES => p.area_unit = unit
       /\ lo.ok => p.area >= lo.v
       /\ hi.ok => p.area <= hi.v

\* the area group: unit equality, then the bounds that are integers
F_area(params, p) ==
    LET unit == area_unit_of(params)
        lo == convert_int(Get(params, "area_min"))
        hi == convert_int(Get(params, "area_max"))
    IN unit \in AREA_UNIT_CHOICES =>
           /\ p.area_unit = unit
           /\ lo.ok => p.area >= lo.v
           /\ hi.ok => p.area <= hi.v

F_date_from(params, p) ==
    LET v == Get(params, "date_from") IN
    (Truthy(v) /\ parse_date(v).kind = "date") =>
        LexLeq(Combine(parse_date(v).date, time_min), p.created_at)

\* date_to with the first instant of the day as the bound
F_date_to_midnight(params, p) ==
    LET v == Get(params, "date_to") IN
    (Truthy(v) /\ parse_date(v).kind = "date") =>
        LexLeq(p.created_at, Combine(parse_date(v).date, time_min))

F_date_to(params, p) ==
    LET v == Get(params, "date_to") IN
    (Truthy(v) /\ parse_date(v).kind = "date") =>
        LexLeq(p.created_at, Combine(parse_date(v).date, time_max))

\* a filter on an integer column when the parameter is an integer
IntEq(params, key, column) ==
    LET n == convert_int(Get(params, key)) IN n.ok => column = n.v

IntGte(params, key, column) ==
    LET n == convert_int(Get(params, key)) IN n.ok => column >= n.v

IntLte(params, key, column) ==
    LET n == convert_int(Get(params, key)) IN n.ok => column <= n.v

F_integers(params, p) ==
    /\ IntEq(params, "property_type", p.property_type.id)
    /\ IntGte(params, "bedrooms_min", p.bedrooms)
    /\ IntLte(params, "bedrooms_max", p.bedrooms)
    /\ IntGte(params, "bathrooms_min", p.bathrooms)
    /\ IntLte(params, "bathrooms_max", p.bathrooms)
    /\ IntEq(params, "state_id", p.state.id)
    /\ IntEq(params, "district_id", p.district.id)
    /\ IntEq(params, "city_id", p.city.id)

F_location(params, p) ==
    LET v == Get(params, "location") IN
    Truthy(v) =>
        \/ IContains(p.city.name, v)
        \/ IContains(p.district.name, v)
        \/ IContains(p.state.name, v)

\* search_terms with the whole search text as the one term
search_terms_unsplit(params) ==
    LET v == Get(params, "search") IN
    IF Truthy(v) THEN <<v>> ELSE <<>>

\* search_terms: the words of the search text (a word has no blanks to strip)
search_terms(params) ==
    LET v == Get(params, "search") IN
    IF Truthy(v) THEN Split(v) ELSE <<>>

\* term_query on one row of the join of a property with its features:
\* feature is the name of the joined Feature row, None when there is none
term_query(term, p, feature) ==
    \/ IContains(p.title, term)
    \/ IContains(p.description, term)
    \/ IContains(p.property_type.name, term)
    \/ IContains(p.contact_name, term)
    \/ IContains(feature, term)
    \/ IContains(p.nearby_places, term)
    \/ IContains(p.state.name, term)
    \/ IContains(p.district.name, term)
    \/ IContains(p.city.name, term)
    \/ IContains(p.property_for, term)
    \/ IContains(p.property_ownership, term)
    \/ IContains(p.furnishing, term)
    \/ IContains(p.price, term)

\* combined_query: every term_query, all of them on the same joined row (one
\* filter() call makes one join of the features relation)
combined_query(params, p, feature) ==
    \A i \in 1..Len(search_terms(params)) : term_query(search_terms(params)[i], p, feature)

\* the decimals of the coordinate parameters
lat_min_value(params) == convert_decimal(Get(params, "lat_min"))

lat_max_value(params) == convert_decimal(Get(params, "lat_max"))

lng_min_value(params) == convert_decimal(Get(params, "lng_min"))

lng_max_value(params) == convert_decimal(Get(params, "lng_max"))

lat_value(params) == convert_decimal(Get(params, "latitude"))

lng_value(params) == convert_decimal(Get(params, "longitude"))

radius_value(params) == convert_decimal(Get(params, "radius"))

\* has_lat_lng_filter with the centre counted when either half of it is a decimal
has_lat_lng_filter_either(params) ==
    \/ lat_min_value(params).ok
    \/ lat_max_value(params).ok
    \/ lng_min_value(params).ok
    \/ lng_max_value(params).ok
    \/ (lat_value(params).ok \/ lng_value(params).ok)

has_lat_lng_filter(params) ==
    \/ lat_min_value(params).ok
    \/ lat_max_value(params).ok
    \/ lng_min_value(params).ok
    \/ lng_max_value(params).ok
    \/ (lat_value(params).ok /\ lng_value(params).ok)

\* the distance branch is entered: a filter is on and the centre is complete
has_center(params) ==
    has_lat_lng_filter(params) /\ lat_value(params).ok /\ lng_value(params).ok

\* the branch that reads SiteSettings: no radius parameter that is a decimal
uses_settings(params) == has_center(params) /\ ~radius_value(params).ok

\* radius_to_use that reads SiteSettings whatever the radius parameter is
radius_to_use_settings_only(params, table) == SettingsRow(table).filter_radius

\* radius_to_use, in tenths of a kilometre: the radius parameter when it is a
\* decimal, else the filter_radius of SiteSettings.get_settings()
radius_to_use(params, table) ==
    IF radius_value(params).ok THEN radius_value(params).v
    ELSE SettingsRow(table).filter_radius

\* abs(math.cos(math.radians(lat))) in thousandths, at the latitudes (in tenths
\* of a degree) the requests of the model name; 0 stands for the 6.1e-17 that
\* the float cosine of 90 degrees is (small, and not zero)
CosMilli(lat) ==
    CASE lat = 0 -> 1000
      [] lat \in {315, -315} -> 853
      [] lat \in {600, -600} -> 500
      [] lat \in {900, -900} -> 0

\* the latitude band with lat_degree = radius * 111.0
InLatBand_times(latitude, center, radius) ==
    /\ latitude - center >= -(radius * 111)
    /\ latitude - center <= radius * 111

\* latitude >= lat_value - lat_degree and latitude <= lat_value + lat_degree,
\* with lat_degree = radius / 111.0: all three in tenths, multiplied out
InLatBand(latitude, center, radius) ==
    /\ 111 * (latitude - center) >= -radius
    /\ 111 * (latitude - center) <= radius

\* longitude >= lng_value - lng_degree and longitude <= lng_value + lng_degree,
\* with lng_degree = radius / (111.0 * cos).  At the float cosine of 90 degrees
\* lng_degree is beyond every longitude for a radius above 0, is 0 for the
\* radius 0, and the band is empty for a radius below 0
InLngBand(longitude, center, radius, cos) ==
    IF cos = 0
    THEN radius > 0 \/ (radius = 0 /\ longitude = center)
    ELSE /\ 111 * cos * (longitude - center) >= -(radius * 1000)
         /\ 111 * cos * (longitude - center) <= radius * 1000

\* the bounds and the box without the test that the coordinates are not NULL
F_bounds_and_box(params, table, p) ==
    has_lat_lng_filter(params) =>
        /\ (lat_min_value(params).ok => p.latitude.v >= lat_min_value(params).v)
        /\ (lat_max_value(params).ok => p.latitude.v <= lat_max_value(params).v)
        /\ (lng_min_value(params).ok => p.longitude.v >= lng_min_value(params).v)
        /\ (lng_max_value(params).ok => p.longitude.v <= lng_max_value(params).v)
        /\ (has_center(params) =>
               /\ InLatBand(p.latitude.v, lat_value(params).v, radius_to_use(params, table))
               /\ InLngBand(p.longitude.v, lng_value(params).v, radius_to_use(params, table),
                            CosMilli(lat_value(params).v)))

\* the four explicit bounds, each applied when its parameter is a decimal
F_bounds(params, p) ==
    /\ lat_min_value(params).ok => p.latitude.v >= lat_min_value(params).v
    /\ lat_max_value(params).ok => p.latitude.v <= lat_max_value(params).v
    /\ lng_min_value(params).ok => p.longitude.v >= lng_min_value(params).v
    /\ lng_max_value(params).ok => p.longitude.v <= lng_max_value(params).v

\* the bounding box of the distance filter
F_box(params, table, p) ==
    has_center(params) =>
        /\ InLatBand(p.latitude.v, lat_value(params).v, radius_to_use(params, table))
        /\ InLngBand(p.longitude.v, lng_value(params).v, radius_to_use(params, table),
                     CosMilli(lat_value(params).v))

\* the coordinate filters
F_geo(params, table, p) ==
    has_lat_lng_filter(params) =>
        /\ ~p.latitude.null
        /\ ~p.longitude.null
        /\ F_bounds(params, p)
        /\ F_box(params, table, p)

\* A decimal that is not finite
NonFinite(d) == d.ok /\ d.kind # "finite"

\* ValueError of parse_date on date_from or date_to: a well-formed date that
\* is no day of the calendar
DateError(params) ==
    \/ /\ Truthy(Get(params, "date_from"))
       /\ parse_date(Get(params, "date_from")).kind = "ValueError"
    \/ /\ Truthy(Get(params, "date_to"))
       /\ parse_date(Get(params, "date_to")).kind = "ValueError"

\* The exception raised before the distance branch, "none" when there is
\* none: the ValueError of parse_date, or the ValidationError with which a
\* DecimalField lookup refuses a bound that is not finite
EarlyError(params) ==
    IF DateError(params) THEN "ValueError"
    ELSE IF /\ has_lat_lng_filter(params)
            /\ \/ NonFinite(lat_min_value(params))
               \/ NonFinite(lat_max_value(params))
               \/ NonFinite(lng_min_value(params))
               \/ NonFinite(lng_max_value(params))
    THEN "ValidationError"
    ELSE "none"

\* The exception get_queryset ends in, "none" when it returns.  In the distance
\* branch math.cos raises ValueError for an infinite latitude, and the lookups
\* refuse a box that is not finite
ErrorOf(params) ==
    IF EarlyError(params) # "none" THEN EarlyError(params)
    ELSE IF ~has_center(params) THEN "none"
    ELSE IF lat_value(params).kind = "inf" THEN "ValueError"
    ELSE IF \/ NonFinite(lat_value(params))
            \/ NonFinite(lng_value(params))
            \/ NonFinite(radius_value(params))
    THEN "ValidationError"
    ELSE "none"

\* get_settings() called before the radius parameter is looked at
ReadsSettings_always(params) == has_center(params) /\ EarlyError(params) = "none"

\* SiteSettings.get_settings() is called: the branch is entered and nothing was
\* raised before it
ReadsSettings(params) == uses_settings(params) /\ EarlyError(params) = "none"

\* the WHERE clause with the price bounds applied to the price text
Where_priced(params, table, p, feature) ==
    /\ F_property_for(params, p)
    /\ F_ownership(params, p)
    /\ F_furnishing(params, p)
    /\ F_area(params, p)
    /\ F_date_from(params, p)
    /\ F_date_to(params, p)
    /\ F_integers(params, p)
    /\ F_location(params, p)
    /\ combined_query(params, p, feature)
    /\ F_geo(params, table, p)
    /\ convert_decimal(Get(params, "price_min")).ok =>
           /\ convert_decimal(p.price).ok
           /\ convert_decimal(p.price).v >= convert_decimal(Get(params, "price_min")).v
    /\ convert_decimal(Get(params, "price_max")).ok =>
           /\ convert_decimal(p.price).ok
           /\ convert_decimal(p.price).v <= convert_decimal(Get(params, "price_max")).v

\* the WHERE clause on one row of the join
Where(params, table, p, feature) ==
    /\ F_property_for(params, p)
    /\ F_ownership(params, p)
    /\ F_furnishing(params, p)
    /\ F_area(params, p)
    /\ F_date_from(params, p)
    /\ F_date_to(params, p)
    /\ F_integers(params, p)
    /\ F_location(params, p)
    /\ combined_query(params, p, feature)
    /\ F_geo(params, table, p)

\* The rows of the query's FROM clause: the stored properties, joined (LEFT
\* OUTER) with their features when a search predicate names features__name.
\* A row is <<property id, feature name>>.
JoinRows(ids, params) ==
    IF search_terms(params) = <<>>
    THEN {<<id, None>> : id \in ids}
    ELSE UNION {
            IF PropertyRow(id).features = {}
            THEN {<<id, None>>}
            ELSE {<<id, f.name>> : f \in PropertyRow(id).features}
         : id \in ids}

\* the rows the WHERE clause keeps
Matching(ids, table, params) ==
    {r \in JoinRows(ids, params) : Where(params, table, PropertyRow(r[1]), r[2])}

\* order_by('created_at'): the oldest first
RECURSIVE order_by_ascending(_)
order_by_ascending(rows) ==
    IF rows = {} THEN {<<>>}
    ELSE UNION {
            {<<r>> \o s : s \in order_by_ascending(rows \ {r})}
         : r \in {r \in rows : \A q \in rows :
                      LexLeq(PropertyRow(r[1]).created_at, PropertyRow(q[1]).created_at)}}

\* order_by('-created_at'): the orders of the rows with created_at not
\* increasing; rows with one created_at come in any order
RECURSIVE order_by(_)
order_by(rows) ==
    IF rows = {} THEN {<<>>}
    ELSE UNION {
            {<<r>> \o s : s \in order_by(rows \ {r})}
         : r \in {r \in rows : \A q \in rows :
                      LexLeq(PropertyRow(q[1]).created_at, PropertyRow(r[1]).created_at)}}

\* the selected columns of a row are those of the property: its id stands for them
RECURSIVE Selected(_)
Selected(s) == IF s = <<>> THEN <<>> ELSE <<Head(s)[1]>> \o Selected(Tail(s))

InSeq(x, s) == \E i \in 1..Len(s) : s[i] = x

\* the query without distinct(): every row of the join is returned
distinct_missing(s) == s

\* distinct(): SELECT DISTINCT keeps one of the rows that are equal in the
\* selected columns
RECURSIVE distinct(_)
distinct(s) ==
    IF s = <<>> THEN <<>>
    ELSE LET front == distinct(SubSeq(s, 1, Len(s) - 1)) IN
         IF InSeq(s[Len(s)], front) THEN front ELSE Append(front, s[Len(s)])

\* the result lists get_queryset can return (one, up to the order of equal created_at)
Results(ids, table, params) ==
    {distinct(Selected(s)) : s \in order_by(Matching(ids, table, params))}

-----------------------------------------------------------------------------
(* Requests *)

\* values a client sends
V_RENT == <<"R", "E", "N", "T">>
V_owner == <<"o", "w", "n", "e", "r">>
V_furnished == <<"f", "u", "r", "n", "i", "s", "h", "e", "d">>
V_SQM == <<"S", "Q", "M">>
V_acre == <<"a", "c", "r", "e">>
V_1000 == <<"1", "0", "0", "0">>
V_big == <<"b", "i", "g">>
V_2024_01_02 == <<"2", "0", "2", "4", "-", "0", "1", "-", "0", "2">>
V_2024_01_03 == <<"2", "0", "2", "4", "-", "0", "1", "-", "0", "3">>
V_2024_02_30 == <<"2", "0", "2", "4", "-", "0", "2", "-", "3", "0">>
V_soon == <<"s", "o", "o", "n">>
V_2024_13_01 == <<"2", "0", "2", "4", "-", "1", "3", "-", "0", "1">>
V_1 == <<"1">>
V_x1 == <<"x", "1">>
V_2 == <<"2">>
V_3 == <<"3">>
V_lahore == <<"l", "a", "h", "o", "r", "e">>
V_Pool == <<"P", "o", "o", "l">>
V_PoolGarden == <<"P", "o", "o", "l", " ", "G", "a", "r", "d", "e", "n">>
V_garden == <<"g", "a", "r", "d", "e", "n">>
V_blank == <<" ", " ">>
V_empty == <<>>
V_villa_lahore == <<" ", "v", "i", "l", "l", "a", " ", "\t", "l", "a", "h", "o", "r", "e", " ">>
V_pool_karachi == <<"p", "o", "o", "l", " ", "k", "a", "r", "a", "c", "h", "i">>
V_31_5 == <<"3", "1", ".", "5">>
V_north == <<"n", "o", "r", "t", "h">>
V_Infinity == <<"I", "n", "f", "i", "n", "i", "t", "y">>
V_90 == <<"9", "0">>
V_74_3 == <<"7", "4", ".", "3">>
V_east == <<"e", "a", "s", "t">>
V_10 == <<"1", "0">>
V_0 == <<"0">>
V_minus5 == <<"-", "5">>
V_far == <<"f", "a", "r">>
V_100 == <<"1", "0", "0">>
V_31_6 == <<"3", "1", ".", "6">>
V_low == <<"l", "o", "w">>
V_74 == <<"7", "4">>
V_1000000 == <<"1", "0", "0", "0", "0", "0", "0">>
V_bar == <<"b", "a", "r">>

\* The <<key, value>> pairs the requests of the model are made of: for every
\* key the code reads, values it accepts and values it does not
Lexicon ==
    {<<"property_for", T_rent>>, <<"property_for", V_RENT>>,
     <<"ownership", T_management>>, <<"ownership", V_owner>>,
     <<"furnishing", V_furnished>>,
     <<"area_unit", T_sqft>>, <<"area_unit", V_SQM>>, <<"area_unit", V_acre>>,
     <<"area_min", V_1000>>, <<"area_min", V_big>>,
     <<"area_max", V_1000>>,
     <<"date_from", V_2024_01_02>>, <<"date_from", V_2024_02_30>>, <<"date_from", V_soon>>,
     <<"date_from", V_2024_01_03>>,
     <<"date_to", V_2024_01_02>>, <<"date_to", V_2024_13_01>>, <<"date_to", V_2024_01_03>>,
     <<"property_type", V_1>>, <<"property_type", V_x1>>,
     <<"bedrooms_min", V_3>>, <<"bedrooms_max", V_2>>,
     <<"bathrooms_min", V_2>>, <<"bathrooms_max", V_2>>,
     <<"state_id", V_1>>, <<"district_id", V_2>>, <<"city_id", V_1>>,
     <<"location", V_lahore>>,
     <<"search", V_Pool>>, <<"search", V_PoolGarden>>, <<"search", V_blank>>,
     <<"search", V_garden>>, <<"search", V_empty>>,
     <<"search", V_villa_lahore>>, <<"search", V_pool_karachi>>,
     <<"latitude", V_31_5>>, <<"latitude", V_north>>, <<"latitude", V_Infinity>>,
     <<"latitude", V_90>>,
     <<"longitude", V_74_3>>, <<"longitude", V_east>>,
     <<"radius", V_10>>, <<"radius", V_0>>, <<"radius", V_minus5>>, <<"radius", V_far>>,
     <<"radius", V_100>>,
     <<"lat_min", V_31_6>>, <<"lat_min", V_low>>, <<"lat_max", V_31_6>>,
     <<"lng_min", V_74>>, <<"lng_max", V_74>>,
     <<"price_min", V_1000000>>, <<"price_max", V_x1>>, <<"foo", V_bar>>}

\* the pairs that requests combine with one another
Core ==
    {<<"property_for", V_RENT>>,
     <<"area_unit", V_SQM>>, <<"area_unit", V_acre>>, <<"area_min", V_1000>>,
     <<"date_from", V_2024_01_02>>, <<"date_from", V_2024_02_30>>,
     <<"bedrooms_min", V_3>>, <<"location", V_lahore>>,
     <<"search", V_Pool>>, <<"search", V_PoolGarden>>, <<"search", V_villa_lahore>>,
     <<"search", V_garden>>,
     <<"latitude", V_31_5>>, <<"latitude", V_north>>, <<"latitude", V_Infinity>>,
     <<"latitude", V_90>>,
     <<"longitude", V_74_3>>, <<"longitude", V_east>>,
     <<"radius", V_10>>, <<"radius", V_0>>, <<"radius", V_minus5>>, <<"radius", V_far>>,
     <<"radius", V_100>>,
     <<"lat_min", V_31_6>>, <<"lat_min", V_low>>, <<"lng_max", V_74>>,
     <<"price_min", V_1000000>>}

\* a mapping has one value per key
IsMapping(m) == \A a \in m : \A b \in m : a[1] = b[1] => a = b

\* complete centre points
Centers ==
    {{<<"latitude", V_31_5>>, <<"longitude", V_74_3>>},
     {<<"latitude", V_90>>, <<"longitude", V_74_3>>}}

\* both date bounds at once: one day, and two days
DateRanges ==
    {{<<"date_from", V_2024_01_02>>, <<"date_to", V_2024_01_02>>},
     {<<"date_from", V_2024_01_02>>, <<"date_to", V_2024_01_03>>}}

\* The parameter mappings of the model: the empty one, every single pair of the
\* lexicon, every two pairs of the core, a complete centre point with every
\* further pair of the core, and the date ranges
ParamMaps ==
    {{}} \cup {{a} : a \in Lexicon}
         \cup {m \in {{a, b} : a \in Core, b \in Core} : IsMapping(m)}
         \cup {m \in {c \cup {a} : c \in Centers, a \in Core} : IsMapping(m)}
         \cup DateRanges

\* the filter_radius values (tenths of a kilometre) an administrator sets
RadiusChoices == {2000}

\* at most this many Property rows are stored at a time
MaxStored == 3

Idle == [active |-> FALSE, params |-> {}]

NoResponse == [status |-> 0, results |-> <<>>]

\* the concurrent requests that reach SiteSettings
NumAccessors == 2

Accessors == 1..NumAccessors

\* a request slot before its first request
NoAccess == [op |-> "none", pc |-> "idle", radius |-> 0, how |-> "none", status |-> 0]

\* no write request yet
NoWrite == [user |-> "none", status |-> 0]

\* no center, radius and point yet
NoProbe == [lat |-> <<>>, lng |-> <<>>, radius |-> <<>>, latitude |-> 0,
            longitude |-> 0, verdict |-> "none"]

\* the variables of the other specifications before their first step
\* the two banner tables
Kinds == {"hero", "offer"}

\* this many create requests on the banner endpoints run at a time
NumCreators == 2

Creators == 1..NumCreators

\* a create request that is not running
NoCreate == [pc |-> "idle", kind |-> "none", valid |-> FALSE]

OutsideSearchInit ==
    /\ accessors = [a \in Accessors |-> NoAccess]
    /\ states = {}
    /\ districts = {}
    /\ cities = {}
    /\ located = <<>>
    /\ images = {}
    /\ written = NoWrite
    /\ probe = NoProbe
    /\ banners = [kind \in Kinds |-> {}]
    /\ serial = [kind \in Kinds |-> 0]
    /\ creating = [c \in Creators |-> NoCreate]
    /\ completed = [kind \in Kinds |-> 0]

Init ==
    /\ properties = {}
    /\ siteSettings = {}
    /\ request = Idle
    /\ response = NoResponse
    /\ OutsideSearchInit

\* a client sends GET /api/properties/ with a query string
Send(params) ==
    /\ request = Idle
    /\ request' = [active |-> TRUE, params |-> params]
    /\ response' = NoResponse
    /\ UNCHANGED <<properties, siteSettings>>
    /\ UNCHANGED outsideSearch

\* PropertyViewSet.list: get_queryset on the request's parameters.  An
\* exception ends the request with status 500; the row get_settings inserted
\* before it stays (autocommit).
List ==
    /\ request.active
    /\ response = NoResponse
    /\ siteSettings' =
           IF ReadsSettings(request.params) THEN get_settings(siteSettings)
           ELSE siteSettings
    /\ IF ErrorOf(request.params) # "none"
       THEN response' = [status |-> 500, results |-> <<>>]
       ELSE \E r \in Results(properties, siteSettings, request.params) :
                response' = [status |-> 200, results |-> r]
    /\ UNCHANGED <<properties, request>>
    /\ UNCHANGED outsideSearch

\* the response reaches the client
Deliver ==
    /\ request.active
    /\ response # NoResponse
    /\ request' = Idle
    /\ response' = NoResponse
    /\ UNCHANGED <<properties, siteSettings>>
    /\ UNCHANGED outsideSearch

\* an authenticated create: a row is inserted, with the next id and the
\* current time as created_at
CreateProperty(id) ==
    /\ id \notin properties
    /\ \A other \in properties : other < id
    /\ Cardinality(properties) < MaxStored
    /\ properties' = properties \cup {id}
    /\ UNCHANGED <<siteSettings, request, response>>
    /\ UNCHANGED outsideSearch

\* an authenticated destroy
DestroyProperty(id) ==
    /\ id \in properties
    /\ properties' = properties \ {id}
    /\ UNCHANGED <<siteSettings, request, response>>
    /\ UNCHANGED outsideSearch

\* SiteSettingsViewSet.retrieve: get_object() is get_settings()
RetrieveSettings ==
    /\ siteSettings' = get_settings(siteSettings)
    /\ UNCHANGED <<properties, request, response>>
    /\ UNCHANGED outsideSearch

\* SiteSettingsViewSet.partial_update: get_object(), then the serializer
\* saves the new filter_radius on the row
PartialUpdateSettings(radius) ==
    /\ siteSettings' =
           {[pk |-> 1, filter_radius |-> radius]}
               \cup {r \in get_settings(siteSettings) : r.pk # 1}
    /\ UNCHANGED <<properties, request, response>>
    /\ UNCHANGED outsideSearch

Next ==
    \/ \E params \in ParamMaps : Send(params)
    \/ List
    \/ Deliver
    \/ \E id \in PropertyIds : CreateProperty(id)
    \/ \E id \in PropertyIds : DestroyProperty(id)
    \/ RetrieveSettings
    \/ \E radius \in RadiusChoices : PartialUpdateSettings(radius)

Spec == Init /\ [][Next]_vars

-----------------------------------------------------------------------------
(* Properties of the search *)

\* the step in which the list request is served
ListStep == request.active /\ response = NoResponse /\ response' # NoResponse

\* the ids of a result list
ResultSet(results) == {results[i] : i \in 1..Len(results)}

\* a mapping without the keys of a set
Without(params, keys) == {kv \in params : kv[1] \notin keys}

\* What serving the mapping in the stored state comes to: the status and the
\* result lists it can return
Served(ids, table, params) ==
    IF ErrorOf(params) # "none"
    THEN [status |-> 500, lists |-> {<<>>}]
    ELSE [status |-> 200, lists |-> Results(ids, table, params)]

\* C1: every list request, whatever the values of its filter parameters, ends
\* in a result list and never in an error.
C1_NeverAnError == response # NoResponse => response.status = 200

IntegerKeys ==
    {"area_min", "area_max", "property_type", "bedrooms_min", "bedrooms_max",
     "bathrooms_min", "bathrooms_max", "state_id", "district_id", "city_id"}

DecimalKeys ==
    {"latitude", "longitude", "radius", "lat_min", "lat_max", "lng_min", "lng_max"}

DateKeys == {"date_from", "date_to"}

\* the value of the pair fails the coercion or validation of its key
FailsCoercion(kv) ==
    \/ kv[1] = "property_for" /\ kv[2] \notin PROPERTY_FOR_CHOICES
    \/ kv[1] = "ownership" /\ kv[2] \notin OWNERSHIP_CHOICES
    \/ kv[1] = "area_unit" /\ Lower(kv[2]) \notin AREA_UNIT_CHOICES
    \/ kv[1] \in IntegerKeys /\ ~convert_int(kv[2]).ok
    \/ kv[1] \in DecimalKeys /\ ~convert_decimal(kv[2]).ok
    \/ kv[1] \in DateKeys /\ parse_date(kv[2]).kind # "date"

\* C2: a request with a value that fails coercion for its key is served as
\* the request without that key is: the same status and the same result.
C2_FailedValueIsOmitted ==
    [][ListStep =>
          \A kv \in request.params :
              FailsCoercion(kv) =>
                  LET omitted == Served(properties, siteSettings,
                                        Without(request.params, {kv[1]}))
                  IN /\ response'.status = omitted.status
                     /\ response'.results \in omitted.lists]_vars

AreaKeys == {"area_unit", "area_min", "area_max"}

\* the rows that pass every filter but the area group
MatchingExceptArea(ids, table, params) ==
    {r \in JoinRows(ids, params) :
        LET p == PropertyRow(r[1]) IN
        /\ F_property_for(params, p)
        /\ F_ownership(params, p)
        /\ F_furnishing(params, p)
        /\ F_date_from(params, p)
        /\ F_date_to(params, p)
        /\ F_integers(params, p)
        /\ F_location(params, p)
        /\ combined_query(params, p, r[2])
        /\ F_geo(params, table, p)}

\* C3: an omitted parameter contributes no predicate: the empty mapping
\* returns every stored property, and a request without area_unit, area_min
\* and area_max returns every property that passes its other filters,
\* whatever its area unit and area.
C3_OmittedIsNoPredicate ==
    [][(ListStep /\ response'.status = 200) =>
          /\ request.params = {} => ResultSet(response'.results) = properties
          /\ Without(request.params, AreaKeys) = request.params =>
                 ResultSet(response'.results) =
                     {r[1] : r \in MatchingExceptArea(properties, siteSettings,
                                                      request.params)}]_vars

\* the term is contained in one of the searched fields of the property, the
\* names of all its linked features among them
TermMatches(term, p) ==
    \/ term_query(term, p, None)
    \/ \E f \in p.features : IContains(f.name, term)

\* C4: with a search of several terms a property is in the result exactly
\* when it passes the other filters and every term is contained in one of its
\* searched fields, a feature name of any linked feature counting for a term.
C4_EveryTermSomeField ==
    [][(ListStep /\ response'.status = 200 /\ Len(search_terms(request.params)) >= 2) =>
          \A id \in properties :
              id \in ResultSet(response'.results) <=>
                  /\ \E r \in Matching(properties, siteSettings,
                                       Without(request.params, {"search"})) : r[1] = id
                  /\ \A i \in 1..Len(search_terms(request.params)) :
                         TermMatches(search_terms(request.params)[i], PropertyRow(id))]_vars

IsDecimal(v) == convert_decimal(v).ok

GeoKeys == DecimalKeys

\* the parameters that trigger the coordinate filter
Triggers(params) ==
    \/ \E key \in {"lat_min", "lat_max", "lng_min", "lng_max"} : IsDecimal(Get(params, key))
    \/ IsDecimal(Get(params, "latitude")) /\ IsDecimal(Get(params, "longitude"))

HasCoordinates(id) == ~PropertyRow(id).latitude.null /\ ~PropertyRow(id).longitude.null

\* C5: when the coordinate filter is triggered, whatever triggers it and
\* whatever the other parameters are, no property with a NULL latitude or a
\* NULL longitude is in the result.
C5_NullCoordinatesExcluded ==
    (response.status = 200 /\ Triggers(request.params)) =>
        \A i \in 1..Len(response.results) : HasCoordinates(response.results[i])

\* a triggered filter was served while a property without coordinates was
\* stored, and the result is not empty
C5_Witness ==
    /\ response.status = 200
    /\ Triggers(request.params)
    /\ \E id \in properties : ~HasCoordinates(id)
    /\ response.results # <<>>

\* C6: the coordinate filter is triggered exactly by a decimal lat_min, lat_max,
\* lng_min or lng_max or by a decimal latitude together with a decimal
\* longitude: triggered, it excludes the properties without coordinates;
\* otherwise (only latitude, only longitude, only radius, or the partner
\* missing or invalid) the result is that of the request without any
\* coordinate parameter and SiteSettings is left alone.
C6_TriggeredExactlyWhen ==
    [][(ListStep /\ response'.status = 200) =>
          IF Triggers(request.params)
          THEN \A i \in 1..Len(response'.results) : HasCoordinates(response'.results[i])
          ELSE /\ response'.results \in
                      Results(properties, siteSettings, Without(request.params, GeoKeys))
               /\ siteSettings' = siteSettings]_vars

\* a latitude alone was served and a property without coordinates is in the result
C6_Witness ==
    /\ response.status = 200
    /\ IsDecimal(Get(request.params, "latitude"))
    /\ ~Triggers(request.params)
    /\ \E i \in 1..Len(response.results) : ~HasCoordinates(response.results[i])

\* C7: the result has each qualifying property exactly once: no property
\* twice, whichever fields and however many linked features match, and
\* every property with a row that passes the filters.
C7_EachQualifyingOnce ==
    [][(ListStep /\ response'.status = 200) =>
          /\ \A i \in 1..Len(response'.results) : \A j \in 1..Len(response'.results) :
                 response'.results[i] = response'.results[j] => i = j
          /\ ResultSet(response'.results) =
                 {r[1] : r \in Matching(properties, siteSettings, request.params)}]_vars

\* the search term is in the names of two features of property 4, which is
\* in the result
C7_Witness ==
    /\ response.status = 200
    /\ Get(request.params, "search") = V_garden
    /\ Cardinality({f \in PropertyRow(4).features : IContains(f.name, V_garden)}) = 2
    /\ InSeq(4, response.results)

\* C8: in every result a property created later comes before a property
\* created earlier.
C8_NewestFirst ==
    response.status = 200 =>
        \A i \in 1..Len(response.results) : \A j \in 1..Len(response.results) :
            (/\ PropertyRow(response.results[j]).created_at
                    # PropertyRow(response.results[i]).created_at
             /\ LexLeq(PropertyRow(response.results[i]).created_at,
                       PropertyRow(response.results[j]).created_at))
            => j < i

\* a result with two properties created at different times
C8_Witness ==
    /\ response.status = 200
    /\ \E i \in 1..Len(response.results) : \E j \in 1..Len(response.results) :
           PropertyRow(response.results[i]).created_at
               # PropertyRow(response.results[j]).created_at

\* the filter_radius the SiteSettings table holds, the default when it has no row
StoredRadius(table) ==
    IF table = {} THEN DefaultFilterRadius
    ELSE (CHOOSE r \in table : r.pk = 1).filter_radius

\* C9: with a decimal latitude and longitude the box is that of the radius
\* parameter when it is a decimal (and SiteSettings is not touched), else that
\* of the filter_radius SiteSettings holds when the request is served; without
\* a complete centre the radius parameter changes nothing.
C9_RadiusUsed ==
    [][(ListStep /\ response'.status = 200) =>
          IF IsDecimal(Get(request.params, "latitude"))
                 /\ IsDecimal(Get(request.params, "longitude"))
          THEN LET radius ==
                       IF IsDecimal(Get(request.params, "radius"))
                       THEN convert_decimal(Get(request.params, "radius")).v
                       ELSE StoredRadius(siteSettings)
               IN /\ response'.results \in
                         Results(properties, {[pk |-> 1, filter_radius |-> radius]},
                                 Without(request.params, {"radius"}))
                  /\ IsDecimal(Get(request.params, "radius")) => siteSettings' = siteSettings
          ELSE response'.results \in
                   Results(properties, siteSettings, Without(request.params, {"radius"}))]_vars

\* a centre without a radius was served after the administrator set 200 km:
\* property 3, 55 km from the centre, is in the result
C9_Witness ==
    /\ response.status = 200
    /\ Get(request.params, "latitude") = V_31_5
    /\ Get(request.params, "longitude") = V_74_3
    /\ ~Supplied(request.params, "radius")
    /\ siteSettings = {[pk |-> 1, filter_radius |-> 2000]}
    /\ InSeq(3, response.results)

\* C10 as stated: serving a search changes neither the stored properties nor
\* the SiteSettings table, in whatever state it is served.
C10_SearchWritesNothing ==
    [][ListStep => (properties' = properties /\ siteSettings' = siteSettings)]_vars

\* the search falls back on the default radius
FallsBack(params) ==
    /\ IsDecimal(Get(params, "latitude"))
    /\ IsDecimal(Get(params, "longitude"))
    /\ ~IsDecimal(Get(params, "radius"))

\* C10 amended: serving a search changes no stored property and no existing
\* SiteSettings row; the one write it can make is the insertion of the
\* default SiteSettings row, when the table has no row and the search falls
\* back on the default radius.
C10_SearchWritesOnlyDefaultRow ==
    [][ListStep =>
          /\ properties' = properties
          /\ \/ siteSettings' = siteSettings
             \/ /\ siteSettings = {}
                /\ FallsBack(request.params)
                /\ siteSettings' = {[pk |-> 1, filter_radius |-> DefaultFilterRadius]}]_vars

\* a search that fell back on the default radius was served and the default
\* row is in the table
C10_Witness ==
    /\ response.status = 200
    /\ FallsBack(request.params)
    /\ siteSettings = {[pk |-> 1, filter_radius |-> DefaultFilterRadius]}

-----------------------------------------------------------------------------
(* The SiteSettings singleton under concurrent accesses (SpecSettings) *)

\* The operations that reach SiteSettings.get_settings(): a search that falls
\* back to the default radius, the retrieve and partial update of the
\* site-settings endpoint, and the changelist of the admin
SettingsOps == {"search", "retrieve", "partial_update", "changelist"}

\* SiteSettingsAdmin.has_add_permission with the add view open
has_add_permission_open(accessor) == TRUE

\* SiteSettingsAdmin.has_add_permission
has_add_permission(accessor) == FALSE

\* SiteSettingsAdmin.has_delete_permission
has_delete_permission(accessor) == FALSE

\* the primary key the database gives an added row
NextPk(table) == IF table = {} THEN 1 ELSE 1 + Cardinality(table)

\* the variables SpecSettings leaves alone
outsideSettings ==
    <<properties, request, response, states, districts, cities, located,
      images, written, probe, banners, serial, creating, completed>>

\* a request arrives in a free slot and is about to call get_settings()
Begin(a, op, radius) ==
    /\ accessors[a].pc = "idle"
    /\ accessors' = [accessors EXCEPT ![a] =
           [op |-> op, pc |-> "select", radius |-> radius, how |-> "none",
            status |-> 0]]
    /\ UNCHANGED siteSettings
    /\ UNCHANGED outsideSettings

\* get_settings(), first statement: the row with pk 1 is looked up
Select(a) ==
    /\ accessors[a].pc = "select"
    /\ accessors' = [accessors EXCEPT ![a] =
           IF \E r \in siteSettings : r.pk = 1
           THEN [@ EXCEPT !.pc = "act", !.how = "found"]
           ELSE [@ EXCEPT !.pc = "insert"]]
    /\ UNCHANGED siteSettings
    /\ UNCHANGED outsideSettings

\* get_settings(), second statement: the row is inserted with the default
\* radius; when another request inserted it meanwhile the primary key refuses
\* the second row and the existing one is read
Insert(a) ==
    /\ accessors[a].pc = "insert"
    /\ siteSettings' = get_settings(siteSettings)
    /\ accessors' = [accessors EXCEPT ![a] =
           [@ EXCEPT !.pc = "act",
                     !.how = IF \E r \in siteSettings : r.pk = 1
                             THEN "raced" ELSE "created"]]
    /\ UNCHANGED outsideSettings

\* the rest of the operation on the instance get_settings() returned: the
\* partial update saves filter_radius on the row with pk 1, the changelist
\* redirects to its change page, retrieve and the search only read it
Finish(a) ==
    /\ accessors[a].pc = "act"
    /\ siteSettings' =
           IF accessors[a].op = "partial_update"
           THEN {[pk |-> 1, filter_radius |-> accessors[a].radius]}
                    \cup {r \in siteSettings : r.pk # 1}
           ELSE siteSettings
    /\ accessors' = [accessors EXCEPT ![a] =
           [@ EXCEPT !.pc = "idle",
                     !.status = IF accessors[a].op = "changelist" THEN 302 ELSE 200]]
    /\ UNCHANGED outsideSettings

\* the add view of the admin: refused unless has_add_permission
AdminAdd(a) ==
    /\ accessors[a].pc = "idle"
    /\ IF has_add_permission(a)
       THEN /\ siteSettings' = siteSettings \cup
                   {[pk |-> NextPk(siteSettings), filter_radius |-> DefaultFilterRadius]}
            /\ accessors' = [accessors EXCEPT ![a] =
                   [NoAccess EXCEPT !.op = "add", !.status = 302]]
       ELSE /\ accessors' = [accessors EXCEPT ![a] =
                   [NoAccess EXCEPT !.op = "add", !.status = 403]]
            /\ UNCHANGED siteSettings
    /\ UNCHANGED outsideSettings

\* the delete view of the admin: refused unless has_delete_permission
AdminDelete(a) ==
    /\ accessors[a].pc = "idle"
    /\ IF has_delete_permission(a)
       THEN /\ siteSettings' = {}
            /\ accessors' = [accessors EXCEPT ![a] =
                   [NoAccess EXCEPT !.op = "delete", !.status = 302]]
       ELSE /\ accessors' = [accessors EXCEPT ![a] =
                   [NoAccess EXCEPT !.op = "delete", !.status = 403]]
            /\ UNCHANGED siteSettings
    /\ UNCHANGED outsideSettings

NextSettings ==
    \/ \E a \in Accessors, op \in SettingsOps \ {"partial_update"} : Begin(a, op, 0)
    \/ \E a \in Accessors, radius \in RadiusChoices : Begin(a, "partial_update", radius)
    \/ \E a \in Accessors : Select(a)
    \/ \E a \in Accessors : Insert(a)
    \/ \E a \in Accessors : Finish(a)
    \/ \E a \in Accessors : AdminAdd(a)
    \/ \E a \in Accessors : AdminDelete(a)

SpecSettings == Init /\ [][NextSettings]_vars

\* C11: at most one SiteSettings instance exists in every reachable state,
\* whatever the interleaving of the searches that fall back to the default
\* radius, retrieves, partial updates and admin accesses, concurrent first
\* accesses included; the instance appears only by the insert of a first
\* access, made when none exists, and once it exists it is never deleted.
C11_SingletonKept ==
    [][/\ Cardinality(siteSettings') <= 1
       /\ siteSettings # {} => siteSettings' # {}
       /\ (siteSettings = {} /\ siteSettings' # {}) =>
              \E a \in Accessors :
                  /\ accessors[a].pc = "insert"
                  /\ accessors'[a].how = "created"]_vars

\* two first accesses ran concurrently: both found no instance, one created
\* it and the other's insert was refused, and one instance exists
C11_Witness ==
    /\ Cardinality(siteSettings) = 1
    /\ \E a, b \in Accessors :
           /\ accessors[a].how = "created"
           /\ accessors[b].how = "raced"

-----------------------------------------------------------------------------
(* Composition of the predicates *)

\* The group of a key: the area keys form one group and the centre keys one
\* group; every other key is a group of its own
GroupOf(key) ==
    IF key \in {"area_unit", "area_min", "area_max"} THEN "area"
    ELSE IF key \in {"latitude", "longitude", "radius"} THEN "center"
    ELSE key

Groups(params) == {GroupOf(kv[1]) : kv \in params}

\* the properties a mapping returns in the stored state
Returned(ids, table, params) == {r[1] : r \in Matching(ids, table, params)}

\* C12: predicates compose conjunctively: for two mappings A and B over
\* disjoint groups of keys, the set of properties returned for A combined
\* with B is the intersection of the set returned for A and the set returned
\* for B.
C12_Conjunctive ==
    [][(ListStep /\ response'.status = 200) =>
          \A A \in SUBSET request.params :
              LET B == request.params \ A
              IN  Groups(A) \cap Groups(B) = {} =>
                      ResultSet(response'.results) =
                          Returned(properties, siteSettings, A)
                              \cap Returned(properties, siteSettings, B)]_vars

-----------------------------------------------------------------------------
(* The area group *)

\* the properties that pass every filter but the area group and have the
\* unit, with the area within the bounds of the mapping that are integers
InUnit(ids, table, params, unit) ==
    {r[1] : r \in {q \in MatchingExceptArea(ids, table, params) :
        LET p == PropertyRow(q[1]) IN
        /\ p.area_unit = unit
        /\ convert_int(Get(params, "area_min")).ok =>
               p.area >= convert_int(Get(params, "area_min")).v
        /\ convert_int(Get(params, "area_max")).ok =>
               p.area <= convert_int(Get(params, "area_max")).v}}

\* the properties that pass every filter but the area group
AnyUnit(ids, table, params) == {r[1] : r \in MatchingExceptArea(ids, table, params)}

\* C13 as stated: a supplied area_unit that is not one of the enumerated
\* units skips the whole area group (area_min and area_max have no effect,
\* every unit and area stays eligible); one that is an enumerated unit
\* restricts the result to that unit and to the integer bounds.
C13_UnitAsSupplied ==
    [][(ListStep /\ response'.status = 200
            /\ Supplied(request.params, "area_unit")) =>
          LET unit == Get(request.params, "area_unit") IN
          ResultSet(response'.results) =
              IF unit \in AREA_UNIT_CHOICES
              THEN InUnit(properties, siteSettings, request.params, unit)
              ELSE AnyUnit(properties, siteSettings, request.params)]_vars

\* C13, amended: the supplied area_unit is compared after lowercasing.  When
\* the lowercased value is not an enumerated unit the whole area group is
\* skipped; when it is, the result is restricted to the properties with that
\* unit whose area is within the bounds that are integers.
C13_UnitLowercased ==
    [][(ListStep /\ response'.status = 200
            /\ Supplied(request.params, "area_unit")) =>
          LET unit == Lower(Get(request.params, "area_unit")) IN
          ResultSet(response'.results) =
              IF unit \in AREA_UNIT_CHOICES
              THEN InUnit(properties, siteSettings, request.params, unit)
              ELSE AnyUnit(properties, siteSettings, request.params)]_vars

\* a request with a unit that is no unit and a lower bound of 1000 was
\* answered with the property 2, whose area is 900
C13_Witness ==
    /\ response.status = 200
    /\ Get(request.params, "area_unit") = V_acre
    /\ Get(request.params, "area_min") = V_1000
    /\ 2 \in ResultSet(response.results)

-----------------------------------------------------------------------------
(* The date bounds *)

\* the calendar day of a timestamp
DayOf(timestamp) == SubSeq(timestamp, 1, 3)

\* the value is a date of the calendar
ValidDate(value) == Truthy(value) /\ parse_date(value).kind = "date"

\* the rows that pass every filter but the date bounds
MatchingExceptDates(ids, table, params) ==
    {r \in JoinRows(ids, params) :
        LET p == PropertyRow(r[1]) IN
        /\ F_property_for(params, p)
        /\ F_ownership(params, p)
        /\ F_furnishing(params, p)
        /\ F_area(params, p)
        /\ F_integers(params, p)
        /\ F_location(params, p)
        /\ combined_query(params, p, r[2])
        /\ F_geo(params, table, p)}

\* C16: date_from and date_to are independent inclusive bounds on whole
\* calendar days: of the properties that pass the other filters, a valid
\* date_from keeps exactly those created on that day or a later one, a valid
\* date_to exactly those created on that day, at any time of it, or an earlier
\* one; a bound that is not supplied leaves its side unbounded.
C16_WholeDays ==
    [][(ListStep /\ response'.status = 200) =>
          LET from == Get(request.params, "date_from")
              to == Get(request.params, "date_to")
          IN ResultSet(response'.results) =
                 {r[1] : r \in {q \in MatchingExceptDates(properties, siteSettings,
                                                         request.params) :
                     LET day == DayOf(PropertyRow(q[1]).created_at) IN
                     /\ ValidDate(from) => LexLeq(parse_date(from).date, day)
                     /\ ValidDate(to) => LexLeq(day, parse_date(to).date)}}]_vars

\* a request with date_from 2024-01-02 and date_to 2024-01-03 was answered
\* with the property 4, created in the last microsecond of 2024-01-03, and
\* without the property 1, created the day before the range
C16_Witness ==
    /\ response.status = 200
    /\ Get(request.params, "date_from") = V_2024_01_02
    /\ Get(request.params, "date_to") = V_2024_01_03
    /\ properties = {1, 2, 4}
    /\ ResultSet(response.results) = {2, 4}

-----------------------------------------------------------------------------
(* Ignored keys *)

\* the keys get_queryset turns into a predicate
FilterKeys ==
    {"property_for", "ownership", "furnishing", "area_unit", "area_min",
     "area_max", "date_from", "date_to", "property_type", "bedrooms_min",
     "bedrooms_max", "bathrooms_min", "bathrooms_max", "state_id",
     "district_id", "city_id", "location", "search", "latitude", "longitude",
     "radius", "lat_min", "lat_max", "lng_min", "lng_max"}

\* the pairs of a mapping whose key is price_min, price_max or unrecognized
IgnoredPairs(params) == {kv \in params : kv[1] \notin FilterKeys}

\* C17: price_min, price_max and every unrecognized key are ignored: a
\* request is answered as the request without those keys is, with the same
\* properties in the same order, and the key adds no error of its own.
C17_IgnoredKeys ==
    [][ListStep =>
          LET alone == Served(properties, siteSettings,
                              request.params \ IgnoredPairs(request.params))
          IN /\ response'.status = alone.status
             /\ response'.results \in alone.lists]_vars

\* a request with price_min and a lower bound on the bedrooms was answered
\* with properties
C17_Witness ==
    /\ response.status = 200
    /\ Supplied(request.params, "price_min")
    /\ Supplied(request.params, "bedrooms_min")
    /\ response.results # <<>>

-----------------------------------------------------------------------------
(* The terms of the search text *)

\* the text without its whitespace characters
RECURSIVE Letters(_)
Letters(s) ==
    IF s = <<>> THEN <<>>
    ELSE IF IsSpace(Head(s)) THEN Letters(Tail(s))
    ELSE <<Head(s)>> \o Letters(Tail(s))

\* the terms one after the other
RECURSIVE Concat(_)
Concat(terms) == IF terms = <<>> THEN <<>> ELSE Head(terms) \o Concat(Tail(terms))

\* the positions of the text where a term starts: a character that is not
\* whitespace, at the start of the text or after whitespace
TermStarts(s) ==
    {i \in 1..Len(s) : ~IsSpace(s[i]) /\ (i = 1 \/ IsSpace(s[i - 1]))}

\* the search text of a mapping, empty when search is not supplied
SearchText(params) ==
    IF Supplied(params, "search") THEN Get(params, "search") ELSE <<>>

\* C18: the search text is split on whitespace into its non-empty trimmed
\* terms in order: no term is empty or holds whitespace, there is one term
\* for every run of other characters, and the terms together are the text
\* without its whitespace.  When there is no term (search omitted, empty or
\* only whitespace) no predicate is added: the request is answered as the
\* request without search is.
C18_TermsOfSearch ==
    [][ListStep =>
          LET text == SearchText(request.params)
              terms == search_terms(request.params)
          IN /\ \A i \in 1..Len(terms) :
                    terms[i] # <<>> /\ \A j \in 1..Len(terms[i]) : ~IsSpace(terms[i][j])
             /\ Len(terms) = Cardinality(TermStarts(text))
             /\ Concat(terms) = Letters(text)
             /\ terms = <<>> =>
                    LET omitted == Served(properties, siteSettings,
                                          Without(request.params, {"search"}))
                    IN /\ response'.status = omitted.status
                       /\ response'.results \in omitted.lists]_vars

\* a request whose search text is only whitespace was answered with properties
C18_Witness ==
    /\ response.status = 200
    /\ Get(request.params, "search") = V_blank
    /\ response.results # <<>>

-----------------------------------------------------------------------------
(* The radius bounding box as a function (SpecBox) *)

V_179_9 == <<"1", "7", "9", ".", "9">>
V_60 == <<"6", "0">>
V_50 == <<"5", "0">>
V_minus31_5 == <<"-", "3", "1", ".", "5">>
V_0_1 == <<"0", ".", "1">>

\* the centers, radii and points the box is asked about: latitude and
\* longitude of the center and the radius as the request carries them, the
\* point as stored coordinates (tenths of a degree) at an offset from the
\* center or, for the longitude, on the other side of the prime meridian
BoxLatitudes == {V_0, V_31_5, V_minus31_5, V_60}

BoxLongitudes == {V_0, V_74_3, V_179_9}

BoxRadii == {V_0_1, V_10, V_50, V_100, V_0, V_minus5}

BoxOffsets == {-10, -5, -1, 0, 1, 5, 10}

\* the request parameters of a probe
BoxParams(q) ==
    {<<"latitude", q.lat>>, <<"longitude", q.lng>>, <<"radius", q.radius>>}

\* the distance filter of get_queryset on a property at the coordinates
InBox(q, latitude, longitude) ==
    F_box(BoxParams(q), {},
          [latitude |-> Coord(latitude), longitude |-> Coord(longitude)])

\* the variables SpecBox leaves alone
outsideBox ==
    <<properties, siteSettings, request, response, accessors, states,
      districts, cities, located, images, written, banners, serial, creating,
      completed>>

\* a center, a radius and a point are chosen
Ask(lat, lng, radius, dlat, dlng, across) ==
    /\ probe.verdict = "none"
    /\ probe' = [lat |-> lat, lng |-> lng, radius |-> radius,
                 latitude |-> convert_decimal(lat).v + dlat,
                 longitude |-> IF across THEN -convert_decimal(lng).v
                               ELSE convert_decimal(lng).v + dlng,
                 verdict |-> "asked"]
    /\ UNCHANGED outsideBox

\* the filter decides whether the point is in the box
Filter ==
    /\ probe.verdict = "asked"
    /\ probe' = [probe EXCEPT !.verdict =
                    IF InBox(probe, probe.latitude, probe.longitude)
                    THEN "in" ELSE "out"]
    /\ UNCHANGED outsideBox

NextBox ==
    \/ \E lat \in BoxLatitudes, lng \in BoxLongitudes, radius \in BoxRadii,
          dlat \in BoxOffsets, dlng \in BoxOffsets, across \in BOOLEAN :
           Ask(lat, lng, radius, dlat, dlng, across)
    \/ Filter

SpecBox == Init /\ [][NextBox]_vars

\* a probe is decided, its radius is above 0 and its center is off the poles
Decided ==
    /\ probe.verdict \in {"in", "out"}
    /\ convert_decimal(probe.radius).v > 0
    /\ convert_decimal(probe.lat).v > -900
    /\ convert_decimal(probe.lat).v < 900

Abs(n) == IF n < 0 THEN -n ELSE n

\* C14: for a radius above 0 and a center off the poles the box lies around
\* the center: the center is inside, a point is inside exactly when its mirror
\* image in the center's parallel is and exactly when its mirror image in the
\* center's meridian is, and a point on the center's meridian is inside
\* exactly when its latitude differs from the center's by at most r/111
\* degrees: a property at the center is included, one on the same longitude
\* further than r/111 degrees away is excluded.
C14_BoxAroundCenter ==
    Decided =>
        LET lat == convert_decimal(probe.lat).v
            lng == convert_decimal(probe.lng).v
            r == convert_decimal(probe.radius).v
            inside == probe.verdict = "in"
        IN /\ InBox(probe, lat, lng)
           /\ inside <=> InBox(probe, 2 * lat - probe.latitude, probe.longitude)
           /\ inside <=> InBox(probe, probe.latitude, 2 * lng - probe.longitude)
           /\ probe.longitude = lng =>
                  (inside <=> 111 * Abs(probe.latitude - lat) <= r)

\* the example of the specification: center 31.5, 74.3 and radius 10; the
\* point half a degree (some 55 km) north on the same longitude is out
C14_Witness ==
    /\ probe.lat = V_31_5 /\ probe.lng = V_74_3 /\ probe.radius = V_10
    /\ probe.latitude = 320 /\ probe.longitude = 743
    /\ probe.verdict = "out"

\* The great-circle arc between the center and the point, in tenths of a
\* degree, for the pairs where it is a difference of coordinates: two points
\* on one meridian, and two points on the equator (the shorter way round);
\* -1 for the other pairs
ArcTenths(q) ==
    LET lat == convert_decimal(q.lat).v
        lng == convert_decimal(q.lng).v
        dlng == Abs(q.longitude - lng)
    IN IF q.longitude = lng THEN Abs(q.latitude - lat)
       ELSE IF lat = 0 /\ q.latitude = 0
            THEN (IF dlng <= 1800 THEN dlng ELSE 3600 - dlng)
       ELSE -1

\* The great-circle distance is at most the radius; a degree of arc is taken
\* as 111.32 km, its length on the equator, no degree of a meridian or of the
\* equator being longer by more than 0.4 km
WithinRadius(q) ==
    /\ ArcTenths(q) >= 0
    /\ ArcTenths(q) * 11132 <= convert_decimal(q.radius).v * 100

\* C15: for a radius above 0, every point whose great-circle distance from
\* the center is at most the radius is inside the box.
C15_NoFalseNegatives ==
    (Decided /\ WithinRadius(probe)) => probe.verdict = "in"

-----------------------------------------------------------------------------
(* The write side of the property endpoint (SpecWrites) *)

\* the keys of the stored tokens
StoredTokens == {"k1"}

\* The Authorization headers of the requests, as their words: none, a stored
\* token, and a token that is not stored
Headers == {<<>>, <<"Token", "k1">>, <<"Token", "k9">>}

\* CustomAuthMiddleware.process_request: the user the request carries on.  A
\* stored token gives its user, a token that matches none gives None, and a
\* request without a token keeps the AnonymousUser of the session
process_request(header) ==
    IF header # <<>> /\ header[1] = "Token"
    THEN IF header[2] \in StoredTokens THEN "user" ELSE "None"
    ELSE "AnonymousUser"

\* IsAuthenticated: request.user and request.user.is_authenticated
is_authenticated(user) == user = "user"

\* get_permissions with create left open
get_permissions_create_open(action) ==
    IF action \in {"list", "retrieve", "create"} THEN {} ELSE {"IsAuthenticated"}

\* PropertyViewSet.get_permissions
get_permissions(action) ==
    IF action \in {"list", "retrieve"} THEN {} ELSE {"IsAuthenticated"}

\* the permission check of the view before the handler runs
has_permission(action, user) ==
    \A permission \in get_permissions(action) : is_authenticated(user)

\* at most this many Property rows and this many PropertyImage rows are
\* stored at a time
MaxWritten == 2

MaxImages == 2

\* the names the write requests give to states, districts and cities
StateNames == {T_Punjab, T_Sindh}

DistrictNames == {T_Lahore}

CityNames == {T_Lahore}

\* the id the database gives the next row of a table
NextRowId(rows) ==
    IF rows = {} THEN 1
    ELSE 1 + (CHOOSE n \in {r.id : r \in rows} : \A r \in rows : r.id <= n)

\* State.objects.get_or_create(name=...)
GetOrCreateState(rows, name) ==
    IF \E r \in rows : r.name = name
    THEN CHOOSE r \in rows : r.name = name
    ELSE [id |-> NextRowId(rows), name |-> name]

\* District.objects.get_or_create(name=..., state=...)
GetOrCreateDistrict(rows, name, state) ==
    IF \E r \in rows : r.name = name /\ r.state = state.id
    THEN CHOOSE r \in rows : r.name = name /\ r.state = state.id
    ELSE [id |-> NextRowId(rows), name |-> name, state |-> state.id]

\* City.objects.get_or_create(name=..., district=...)
GetOrCreateCity(rows, name, district) ==
    IF \E r \in rows : r.name = name /\ r.district = district.id
    THEN CHOOSE r \in rows : r.name = name /\ r.district = district.id
    ELSE [id |-> NextRowId(rows), name |-> name, district |-> district.id]

\* PropertySerializer._process_location_data.  The result says whether the
\* data is refused (a POST without one of the three names), which of the
\* three location fields are set and to which rows, and the tables after the
\* rows that did not exist were created
process_location_data(method, state_name, district_name, city_name) ==
    IF /\ method = "POST"
       /\ ~(Truthy(state_name) /\ Truthy(district_name) /\ Truthy(city_name))
    THEN [refused |-> TRUE, fields |-> <<>>,
          states |-> states, districts |-> districts, cities |-> cities]
    ELSE IF ~Truthy(state_name)
    THEN [refused |-> FALSE, fields |-> <<>>,
          states |-> states, districts |-> districts, cities |-> cities]
    ELSE LET state == GetOrCreateState(states, state_name) IN
         IF ~Truthy(district_name)
         THEN [refused |-> FALSE, fields |-> [state |-> state.id],
               states |-> states \cup {state}, districts |-> districts,
               cities |-> cities]
         ELSE LET district == GetOrCreateDistrict(districts, district_name, state) IN
              IF ~Truthy(city_name)
              THEN [refused |-> FALSE,
                    fields |-> [state |-> state.id, district |-> district.id],
                    states |-> states \cup {state},
                    districts |-> districts \cup {district}, cities |-> cities]
              ELSE LET city == GetOrCreateCity(cities, city_name, district) IN
                   [refused |-> FALSE,
                    fields |-> [state |-> state.id, district |-> district.id,
                                city |-> city.id],
                    states |-> states \cup {state},
                    districts |-> districts \cup {district},
                    cities |-> cities \cup {city}]

\* the PropertyImage rows created for the uploaded images of a request
Uploaded(property, count) ==
    IF count = 0 THEN {}
    ELSE {[id |-> NextRowId(images), property |-> property]}

\* the variables SpecWrites leaves alone
outsideWrites ==
    <<siteSettings, request, response, accessors, probe, banners, serial,
      creating, completed>>

\* the stored data of the write side
stored == <<properties, located, images, states, districts, cities>>

\* the request is refused before its handler runs: nothing is written
Refuse(user) ==
    /\ written' = [user |-> user, status |-> 401]
    /\ UNCHANGED stored

\* the handler answers without writing
Answer(user, status) ==
    /\ written' = [user |-> user, status |-> status]
    /\ UNCHANGED stored

\* a name of the set, or no name
Optional(names) == names \cup {None}

\* the request bodies: the names of state, district and city, each one given
\* or not, and the number of uploaded images
Bodies(state_names, uploads) ==
    [state : Optional(state_names), district : Optional(DistrictNames),
     city : Optional(CityNames), upload : uploads]

\* POST /api/properties/: PropertySerializer.create
Create(header, body) ==
    LET user == process_request(header)
        data == process_location_data("POST", body.state, body.district, body.city)
        id == NextRowId({[id |-> p] : p \in properties})
    IN /\ Cardinality(properties) < MaxWritten
       /\ Cardinality(images) + body.upload <= MaxImages
       /\ IF ~has_permission("create", user) THEN Refuse(user)
          ELSE IF data.refused THEN Answer(user, 400)
          ELSE /\ states' = data.states
               /\ districts' = data.districts
               /\ cities' = data.cities
               /\ properties' = properties \cup {id}
               /\ located' = located @@ (id :> data.fields)
               /\ images' = images \cup Uploaded(id, body.upload)
               /\ written' = [user |-> user, status |-> 201]
       /\ UNCHANGED outsideWrites

\* PUT and PATCH /api/properties/<id>/: PropertySerializer.update.  Each of
\* state, district and city of the instance is set when
\* _process_location_data returned it
Update(action, header, id, body) ==
    LET user == process_request(header)
        data == process_location_data("PATCH", body.state, body.district, body.city)
    IN /\ Cardinality(images) + body.upload <= MaxImages
       /\ IF ~has_permission(action, user) THEN Refuse(user)
          ELSE IF id \notin properties THEN Answer(user, 404)
          ELSE /\ states' = data.states
               /\ districts' = data.districts
               /\ cities' = data.cities
               /\ located' = [located EXCEPT ![id] =
                      [field \in {"state", "district", "city"} |->
                          IF field \in DOMAIN data.fields THEN data.fields[field]
                          ELSE located[id][field]]]
               /\ images' = images \cup Uploaded(id, body.upload)
               /\ written' = [user |-> user, status |-> 200]
               /\ UNCHANGED properties
       /\ UNCHANGED outsideWrites

\* DELETE /api/properties/<id>/: the row goes, and its images with it
Destroy(header, id) ==
    LET user == process_request(header)
    IN /\ IF ~has_permission("destroy", user) THEN Refuse(user)
          ELSE IF id \notin properties THEN Answer(user, 404)
          ELSE /\ properties' = properties \ {id}
               /\ located' = [p \in properties \ {id} |-> located[p]]
               /\ images' = {i \in images : i.property # id}
               /\ written' = [user |-> user, status |-> 204]
               /\ UNCHANGED <<states, districts, cities>>
       /\ UNCHANGED outsideWrites

\* the image_id values of the request bodies: the decimal numerals of the
\* ids an image can have, a text that is no number, and no image_id
ImageIds == {<<Digits[n + 1]>> : n \in 1..MaxImages} \cup {V_x1, None}

\* DELETE /api/properties/<id>/delete_image/ with image_id in the body.
\* request.data.get('image_id') is None without the key, and the lookup
\* id=None matches no row; the lookup converts any other value with int(),
\* whose ValueError is not the DoesNotExist the handler catches
DeleteImage(header, id, image_id) ==
    LET user == process_request(header)
        wanted == convert_int(image_id)
    IN /\ IF ~has_permission("delete_image", user) THEN Refuse(user)
          ELSE IF id \notin properties THEN Answer(user, 404)
          ELSE IF image_id # None /\ ~wanted.ok THEN Answer(user, 500)
          ELSE IF /\ wanted.ok
                  /\ \E i \in images : i.id = wanted.v /\ i.property = id
          THEN /\ images' = {i \in images : i.id # wanted.v}
               /\ written' = [user |-> user, status |-> 204]
               /\ UNCHANGED <<properties, located, states, districts, cities>>
          ELSE Answer(user, 404)
       /\ UNCHANGED outsideWrites

\* Requests of every caller, with bodies that name one state
NextWrites ==
    \/ \E header \in Headers, body \in Bodies({T_Punjab}, {0, 1}) :
           Create(header, body)
    \/ \E action \in {"update", "partial_update"}, header \in Headers,
          id \in 1..MaxWritten, body \in Bodies({T_Punjab}, {0, 1}) :
           Update(action, header, id, body)
    \/ \E header \in Headers, id \in 1..MaxWritten : Destroy(header, id)
    \/ \E header \in Headers, id \in 1..MaxWritten, image_id \in ImageIds :
           DeleteImage(header, id, image_id)

SpecWrites == Init /\ [][NextWrites]_vars

\* the header of an authenticated caller
Authenticated == <<"Token", "k1">>

\* Requests of an authenticated caller, with bodies that name either state
\* and upload no image
NextLocations ==
    \/ \E body \in Bodies(StateNames, {0}) : Create(Authenticated, body)
    \/ \E action \in {"update", "partial_update"}, id \in 1..MaxWritten,
          body \in Bodies(StateNames, {0}) :
           Update(action, Authenticated, id, body)
    \/ \E id \in 1..MaxWritten : Destroy(Authenticated, id)

SpecLocations == Init /\ [][NextLocations]_vars

\* ---------------------------------------------------------------------------
\* C19: a create, update, partial_update, destroy or delete_image request of
\* a caller without a token, or with a token that matches no stored token,
\* is rejected, and the stored properties, their locations and their images
\* (and the location tables) are after the request what they were before it.
Unauthenticated == {"None", "AnonymousUser"}

C19_UnauthenticatedRefused ==
    [][written'.user \in Unauthenticated
         => /\ written'.status = 401
            /\ UNCHANGED stored]_vars

\* a caller with an unknown token was refused while a property with an
\* image is stored
C19_Witness ==
    /\ written = [user |-> "None", status |-> 401]
    /\ \E i \in images : i.property \in properties

\* ---------------------------------------------------------------------------
\* C20: every stored property has a consistent location hierarchy: the
\* district of the property is a district of the state of the property, and
\* the city of the property is a city of the district of the property.
ConsistentLocation(p) ==
    /\ \E d \in districts : d.id = located[p].district /\ d.state = located[p].state
    /\ \E c \in cities : c.id = located[p].city /\ c.district = located[p].district

C20_LocationHierarchy == \A p \in properties : ConsistentLocation(p)

\* ---------------------------------------------------------------------------
\* C22: delete_image of an authenticated caller on a stored property P with
\* image_id i deletes exactly image i and responds 204 when image i exists
\* and belongs to P; when image i does not exist or belongs to another
\* property it responds 404 and deletes no image; in both cases no other
\* image and no property changes.
ImageOf(id, image_id) ==
    {i \in images : convert_int(image_id).ok /\ i.id = convert_int(image_id).v
                    /\ i.property = id}

DeleteImageStep(id, image_id) ==
    /\ id \in properties
    /\ DeleteImage(Authenticated, id, image_id)

C22_DeleteImageExact ==
    [][\A id \in 1..MaxWritten, image_id \in ImageIds :
          DeleteImageStep(id, image_id)
            => /\ IF ImageOf(id, image_id) # {}
                  THEN /\ written'.status = 204
                       /\ images' = images \ ImageOf(id, image_id)
                  ELSE /\ written'.status = 404
                       /\ images' = images
               /\ UNCHANGED <<properties, located>>]_vars

\* the same for the image_id values that are numerals or absent
NumeralIds == {image_id \in ImageIds : image_id = None \/ convert_int(image_id).ok}

C22_NumeralIds ==
    [][\A id \in 1..MaxWritten, image_id \in NumeralIds :
          DeleteImageStep(id, image_id)
            => /\ IF ImageOf(id, image_id) # {}
                  THEN /\ written'.status = 204
                       /\ images' = images \ ImageOf(id, image_id)
                  ELSE /\ written'.status = 404
                       /\ images' = images
               /\ UNCHANGED <<properties, located>>]_vars

-----------------------------------------------------------------------------
(* The create of the banner endpoints (SpecBanners) *)

\* each banner table gives out at most this many ids
MaxCreates == 3

\* the variables SpecBanners leaves alone
outsideBanners ==
    <<properties, siteSettings, request, response, accessors, states,
      districts, cities, located, images, written, probe>>

\* the create requests of a kind that have deleted and not yet saved
Running(kind) == {c \in Creators : creating[c].pc = "deleted" /\ creating[c].kind = kind}

\* HeroBannerViewSet.create and OfferBannerViewSet.create, first statement:
\* HeroBanner.objects.all().delete().  The request is valid when its data
\* holds an image
DeleteAll(c, kind, valid) ==
    /\ creating[c].pc = "idle"
    /\ serial[kind] + Cardinality(Running(kind)) < MaxCreates
    /\ banners' = [banners EXCEPT ![kind] = {}]
    /\ creating' = [creating EXCEPT ![c] = [pc |-> "deleted", kind |-> kind, valid |-> valid]]
    /\ UNCHANGED <<serial, completed>>
    /\ UNCHANGED outsideBanners

\* second statement: super().create(request), which validates the data and
\* saves the new row, or answers 400 and saves nothing.  A create that saved
\* its row is the last completed create of its kind
SuperCreate(c) ==
    LET kind == creating[c].kind
        id == serial[kind] + 1
    IN /\ creating[c].pc = "deleted"
       /\ IF creating[c].valid
          THEN /\ banners' = [banners EXCEPT ![kind] = @ \cup {id}]
               /\ serial' = [serial EXCEPT ![kind] = id]
               /\ completed' = [completed EXCEPT ![kind] = id]
          ELSE UNCHANGED <<banners, serial, completed>>
       /\ creating' = [creating EXCEPT ![c] = NoCreate]
       /\ UNCHANGED outsideBanners

NextBanners ==
    \/ \E c \in Creators, kind \in Kinds, valid \in BOOLEAN : DeleteAll(c, kind, valid)
    \/ \E c \in Creators : SuperCreate(c)

SpecBanners == Init /\ [][NextBanners]_vars

\* ---------------------------------------------------------------------------
\* C21: once the create requests have finished, at most one HeroBanner and
\* at most one OfferBanner exists, and the one that exists is the banner of
\* the last completed create of its kind.
Finished == \A c \in Creators : creating[c].pc = "idle"

C21_CreateReplacesAll ==
    Finished =>
        \A kind \in Kinds :
            /\ Cardinality(banners[kind]) <= 1
            /\ banners[kind] # {} => banners[kind] = {completed[kind]}

====
